---- MODULE Spec2Model ----
(***************************************************************************)
(* Overlay tracker of fake-vac (main.py): the one-shot window locator, the  *)
(* startup sequence of main(), and the timer-driven OverlayWindow._tick     *)
(* that binds the overlay's visibility and position to the Steam window.    *)
(*                                                                          *)
(* Win32 values are integers: a handle is a positive number, NULL is 0, a   *)
(* BOOL is 0 or 1.  A query that raises a Python exception yields RAISE.    *)
(***************************************************************************)
EXTENDS Integers, Sequences, FiniteSets, TLC

\* ------------------------------------------------------------ bounds
\* Number of left clicks on the overlay (each opens one SteamShell).
MaxShells == 2

\* Number of top-level windows on a desktop handed to the locator.
MaxWindows == 2
\* Largest absolute value of a window's left/top coordinate given to the
\* calibration tool.
MaxCoord == 1
\* Number of rectangle reads in a run of the two position trackers.
MaxReads == 3
\* Number of lines the calibration tool prints in a run.
MaxLines == 3

\* ------------------------------------------------------------ values
NULL == 0
RAISE == -1
\* Native handle of the overlay widget (int(self.winId())).
Overlay == 101
\* Some third-party top-level window.
Other == 102
\* Native handle of the i-th SteamShell opened.
ShellBase == 200
\* Native handle of the window a restarted target application opens.
Reopened == 103
ShellHwnd(i) == ShellBase + i

\* Characters of window titles; a title is a sequence of characters.
Steam == <<"S", "t", "e", "a", "m">>
\* The characters str.strip() removes: every Unicode whitespace character.
\* Those without an escape are written by their code point.
IsSpace(c) ==
    c \in { " ", "\t", "\n", "\r", "\f", "U+000B", "U+001C", "U+001D", "U+001E", "U+001F",
            "U+0085", "U+00A0", "U+1680", "U+2000", "U+2001", "U+2002", "U+2003",
            "U+2004", "U+2005", "U+2006", "U+2007", "U+2008", "U+2009", "U+200A",
            "U+2028", "U+2029", "U+202F", "U+205F", "U+3000" }

\* The OS queries a tick makes, each of which may raise.
Queries == {"winId", "IsIconic", "GetForegroundWindow", "GetWindowRect"}

\* Target rectangles <<left, top, right, bottom>> the window manager may report.
Rects == { <<100, 50, 300, 400>>, <<0, 0, 200, 100>> }
\* Offsets the overlay may be constructed with; main() passes (-617, 7).
MainOffset == <<-617, 7>>
Offsets == { MainOffset, <<5, -3>> }

\* Window lists the desktop may hold when main() starts (enumeration order).
Win(h, v, t) == [hwnd |-> h, visible |-> v, title |-> t]
StartDesktops ==
    { << >>,
      << Win(1, TRUE, Steam) >>,
      << Win(1, FALSE, Steam), Win(2, TRUE, Steam \o <<"x">>) >>,
      << Win(1, TRUE, Steam \o <<"x">>), Win(2, TRUE, <<" ">> \o Steam \o <<" ">>) >> }

\* A title longer than the title buffer: "Steam", 506 blanks, "x" (512 characters).
LongTitle == Steam \o [i \in 1..506 |-> " "] \o <<"x">>
\* Titles of the windows handed to the locator, and the titles looked for.
WindowTitles == { Steam, <<" ">> \o Steam \o <<" ">>, Steam \o <<"x">>, LongTitle,
                  <<"U+00A0">> \o Steam \o <<"\r">> }
WantedTitles == { Steam, Steam \o <<"x">> }
\* EnumWindows delivers every window (NoFail) or fails after delivering k of them.
NoFail == -1

\* All window lists of length n with titles from WindowTitles; the k-th window
\* enumerated has handle k.
RECURSIVE DesktopsOfLen(_)
DesktopsOfLen(n) ==
    IF n = 0 THEN { << >> }
    ELSE { Append(d, Win(n, v, t)) : d \in DesktopsOfLen(n - 1),
                                     v \in BOOLEAN, t \in WindowTitles }
Desktops == UNION { DesktopsOfLen(n) : n \in 0..MaxWindows }

VARIABLES
    pc,           \* position of main(): "start", "exec" (event loop), "exit"
    exitStatus,   \* argument of sys.exit, -1 while running
    out,          \* what main() has printed
    desktop,      \* top-level windows at startup, in enumeration order
    hwnd_parent,  \* OverlayWindow.hwnd_parent (0 before construction)
    rel_offset,   \* OverlayWindow.rel_offset
    created,      \* the OverlayWindow has been constructed
    timerActive,  \* its QTimer has been started
    quitPosted,   \* a Quit event is posted to the event loop and not yet delivered
    visible,      \* OverlayWindow.isVisible()
    pos,          \* position last set by OverlayWindow.move
    shells,       \* OverlayWindow.shells: ids of SteamShell objects, in order
    nshells,      \* number of SteamShell objects created so far
    shellVis,     \* ids of the SteamShell windows that are visible
    alive,        \* OS: the target window still exists
    iconic,       \* OS: the target window is minimized
    rect,         \* OS: the target window's rectangle
    fg,           \* OS: the foreground window (0 = none)
    last,         \* record of what the most recent tick read and did
    scen,         \* history: how far the ticks so far have played the lifecycle scenario
    loc,          \* a call of find_window_by_title_exact: its inputs and its outcome
    lookups,      \* number of calls of find_window_by_title_exact the program has made
    reopened,     \* OS: the target application has been started again (new window)
    frozen,       \* environment: whether the external state has stopped changing,
                  \* and the queries that fail from then on
    target,       \* OS: the target window's current title and visibility flag
    cal,          \* the calibration tool (test.py): its inputs, state and output
    pt            \* a run of the two position trackers on the same rectangle reads

vars == << pc, exitStatus, out, desktop, hwnd_parent, rel_offset, created,
           timerActive, quitPosted, visible, pos, shells, nshells, shellVis,
           alive, iconic, rect, fg, last, scen, loc, lookups, reopened, frozen,
           target, cal, pt >>

osVars == << alive, iconic, rect, fg >>
mainVars == << pc, exitStatus, out, desktop, hwnd_parent, rel_offset, created, timerActive,
               lookups, quitPosted >>
toolVars == << target, cal, pt >>
auxVars == << loc, reopened, frozen, target, cal, pt >>

\* ------------------------------------------------------------ locator
\* Positions of the characters of s that are not whitespace.
NonSpace(s) == { i \in 1..Len(s) : ~IsSpace(s[i]) }
MinOf(S) == CHOOSE i \in S : \A j \in S : i <= j
MaxOf(S) == CHOOSE i \in S : \A j \in S : i >= j

\* s without its leading whitespace
lstrip(s) == IF NonSpace(s) = {} THEN << >> ELSE SubSeq(s, MinOf(NonSpace(s)), Len(s))

\* s without its trailing whitespace
rstrip(s) == IF NonSpace(s) = {} THEN << >> ELSE SubSeq(s, 1, MaxOf(NonSpace(s)))

\* str.strip()
strip(s) == rstrip(lstrip(s))

\* Size of the title buffer, in characters including the terminator.
BufLen == 512

\* GetWindowTextW(hwnd, buf, nMaxCount); buf.value
GetWindowTextW(title, nMaxCount) ==
    IF Len(title) <= nMaxCount - 1 THEN title ELSE SubSeq(title, 1, nMaxCount - 1)

\* Variant of TitleRead that trims the title before it goes through the buffer.
TitleRead_trim_first(w) == GetWindowTextW(strip(w.title), BufLen)

\* The title enum_proc compares: read through the buffer, then trimmed.
TitleRead(w) == strip(GetWindowTextW(w.title, BufLen))

IsPrefix(p, t) == Len(p) <= Len(t) /\ SubSeq(t, 1, Len(p)) = p

\* Variant of enum_proc that accepts a title starting with the wanted one.
enum_proc_prefix(w, title, result) ==
    IF ~w.visible THEN [ret |-> TRUE, result |-> result]
    ELSE IF IsPrefix(title, TitleRead(w))
    THEN [ret |-> FALSE, result |-> Append(result, w.hwnd)]
    ELSE [ret |-> TRUE, result |-> result]

\* Variant of enum_proc without the IsWindowVisible test.
enum_proc_any_visibility(w, title, result) ==
    IF TitleRead(w) = title
    THEN [ret |-> FALSE, result |-> Append(result, w.hwnd)]
    ELSE [ret |-> TRUE, result |-> result]

\* Variant of enum_proc that keeps enumerating after a match.
enum_proc_no_stop(w, title, result) ==
    IF ~w.visible THEN [ret |-> TRUE, result |-> result]
    ELSE IF TitleRead(w) = title
    THEN [ret |-> TRUE, result |-> Append(result, w.hwnd)]
    ELSE [ret |-> TRUE, result |-> result]

\* enum_proc(hwnd, lParam): what it returns to EnumWindows (TRUE continues the
\* enumeration, FALSE stops it) and the result list it leaves.
enum_proc(w, title, result) ==
    IF ~w.visible THEN [ret |-> TRUE, result |-> result]
    ELSE IF TitleRead(w) = title
    THEN [ret |-> FALSE, result |-> Append(result, w.hwnd)]
    ELSE [ret |-> TRUE, result |-> result]

\* EnumWindows(enum_proc, 0) over the windows ws, in order.  st holds the result
\* list, the handles the callback has been called with, and the BOOL returned.
RECURSIVE EnumWindows(_, _, _, _)
EnumWindows(ws, title, failAt, st) ==
    IF failAt # NoFail /\ Len(st.examined) >= failAt
    THEN [st EXCEPT !.ok = FALSE]
    ELSE IF ws = << >> THEN st
    ELSE LET r == enum_proc(Head(ws), title, st.result)
             st2 == [ result |-> r.result,
                      examined |-> Append(st.examined, Head(ws).hwnd),
                      ok |-> r.ret ]
         IN  IF r.ret THEN EnumWindows(Tail(ws), title, failAt, st2) ELSE st2

\* Variant of return_result without the emptiness test (IndexError).
return_result_unguarded(result) ==
    IF result # << >> THEN [val |-> result[1], raised |-> FALSE]
    ELSE [val |-> NULL, raised |-> TRUE]

\* return result[0] if result else None
return_result(result) ==
    IF result # << >> THEN [val |-> result[1], raised |-> FALSE]
    ELSE [val |-> NULL, raised |-> FALSE]

\* find_window_by_title_exact(title) on the desktop ws, with everything it did:
\* the value returned, whether it raised, the result list, the windows examined,
\* and the error it reported (it reads neither EnumWindows' return value nor the
\* last error, so it reports none).
locate(ws, title, failAt) ==
    LET st == EnumWindows(ws, title, failAt,
                          [result |-> << >>, examined |-> << >>, ok |-> TRUE])
        r == return_result(st.result)
    IN  [ val |-> r.val, raised |-> r.raised, result |-> st.result,
          examined |-> st.examined, enumOk |-> st.ok, error |-> "none" ]

find_window_by_title_exact(ws, title) == locate(ws, title, NoFail).val

\* The value of loc while no call has been recorded.
NoCall == [ ws |-> << >>, title |-> << >>, failAt |-> NoFail, done |-> FALSE,
            val |-> NULL, raised |-> FALSE, result |-> << >>, examined |-> << >>,
            enumOk |-> TRUE, error |-> "none" ]

\* ------------------------------------------------------------ queries
\* get_window_rect: the rectangle, or << >> when GetWindowRect fails (OSError).
get_window_rect(isAlive, r, fail) ==
    IF "GetWindowRect" \in fail \/ ~isAlive THEN << >> ELSE r

\* IsIconic(hwnd): 0 for a window that is not minimized or no longer exists.
IsIconic(isAlive, isIconic, fail) ==
    IF "IsIconic" \in fail THEN RAISE
    ELSE IF isAlive /\ isIconic THEN 1 ELSE 0

GetForegroundWindow(f, fail) ==
    IF "GetForegroundWindow" \in fail THEN RAISE ELSE f

\* int(self.winId()) with its except branch: 0 when it raises.
winId(fail) == IF "winId" \in fail THEN 0 ELSE Overlay

\* Variant of covered_try without the overlay exemption.
covered_try_no_overlay(hwnd_steam, hwnd_overlay, isIconicRes, fgRes) ==
    IF hwnd_steam = 0 THEN 1
    ELSE IF isIconicRes = RAISE THEN RAISE
    ELSE IF isIconicRes # 0 THEN 1
    ELSE IF fgRes = RAISE THEN RAISE
    ELSE IF fgRes = hwnd_steam THEN 0
    ELSE 1

\* Variant of covered_try that compares the foreground window with the overlay
\* handle without testing that the handle is known.
covered_try_overlay_unchecked(hwnd_steam, hwnd_overlay, isIconicRes, fgRes) ==
    IF hwnd_steam = 0 THEN 1
    ELSE IF isIconicRes = RAISE THEN RAISE
    ELSE IF isIconicRes # 0 THEN 1
    ELSE IF fgRes = RAISE THEN RAISE
    ELSE IF fgRes = hwnd_steam THEN 0
    ELSE IF fgRes = hwnd_overlay THEN 0
    ELSE 1

\* Variant of covered_try that also exempts the shells the overlay has opened.
covered_try_shell_exempt(hwnd_steam, hwnd_overlay, isIconicRes, fgRes) ==
    IF hwnd_steam = 0 THEN 1
    ELSE IF isIconicRes = RAISE THEN RAISE
    ELSE IF isIconicRes # 0 THEN 1
    ELSE IF fgRes = RAISE THEN RAISE
    ELSE IF fgRes = hwnd_steam THEN 0
    ELSE IF hwnd_overlay # 0 /\ fgRes = hwnd_overlay THEN 0
    ELSE IF fgRes > ShellBase THEN 0
    ELSE 1

\* Variant of covered_try without the minimized check.
covered_try_no_iconic(hwnd_steam, hwnd_overlay, isIconicRes, fgRes) ==
    IF hwnd_steam = 0 THEN 1
    ELSE IF fgRes = RAISE THEN RAISE
    ELSE IF fgRes = hwnd_steam THEN 0
    ELSE IF hwnd_overlay # 0 /\ fgRes = hwnd_overlay THEN 0
    ELSE 1

\* The try body of is_window_covered_or_not_foreground: 1 (True), 0 (False), or
\* RAISE when a query it makes raises.
covered_try(hwnd_steam, hwnd_overlay, isIconicRes, fgRes) ==
    IF hwnd_steam = 0 THEN 1
    ELSE IF isIconicRes = RAISE THEN RAISE
    ELSE IF isIconicRes # 0 THEN 1
    ELSE IF fgRes = RAISE THEN RAISE
    ELSE IF fgRes = hwnd_steam THEN 0
    ELSE IF hwnd_overlay # 0 /\ fgRes = hwnd_overlay THEN 0
    ELSE 1

\* Variant of covered_calls that reads the foreground window before the
\* minimized check.
covered_calls_fg_first(hwnd_steam, isIconicRes, fgRes) ==
    IF hwnd_steam = 0 THEN << >>
    ELSE IF fgRes = RAISE THEN << "GetForegroundWindow" >>
    ELSE << "GetForegroundWindow", "IsIconic" >>

\* The OS queries the try body of is_window_covered_or_not_foreground makes, in
\* the order it makes them: none for an absent handle, IsIconic, and
\* GetForegroundWindow only if IsIconic returned 0.
covered_calls(hwnd_steam, isIconicRes, fgRes) ==
    IF hwnd_steam = 0 THEN << >>
    ELSE IF isIconicRes = RAISE THEN << "IsIconic" >>
    ELSE IF isIconicRes # 0 THEN << "IsIconic" >>
    ELSE << "IsIconic", "GetForegroundWindow" >>

\* Variant of is_window_covered_or_not_foreground whose except branch answers
\* "not covered".
is_window_covered_or_not_foreground_optimistic(hwnd_steam, hwnd_overlay, isIconicRes, fgRes) ==
    LET r == covered_try(hwnd_steam, hwnd_overlay, isIconicRes, fgRes)
    IN  IF r = RAISE THEN FALSE ELSE r = 1

\* ... except Exception: return True
is_window_covered_or_not_foreground(hwnd_steam, hwnd_overlay, isIconicRes, fgRes) ==
    LET r == covered_try(hwnd_steam, hwnd_overlay, isIconicRes, fgRes)
    IN  IF r = RAISE THEN TRUE ELSE r = 1

\* ------------------------------------------------------------ tick
\* `last` describes the tick that has just run: what it read (the query results),
\* what it computed and the commands it issued, in order.  ticked and covered
\* persist; the rest is cleared as soon as anything else happens (fresh = FALSE),
\* so in a state with last.fresh the OS variables are the ones that tick read.
NoTick ==
    [ ticked |-> FALSE, fresh |-> FALSE, covered |-> FALSE, fail |-> {},
      hwnd_overlay |-> 0, iconic |-> 0, fg |-> 0, rect |-> << >>,
      prevCovered |-> -1, wasVisible |-> FALSE, prePos |-> <<0, 0>>,
      cmds |-> << >>, raised |-> FALSE, asked |-> << >> ]

Past(l) == [ NoTick EXCEPT !.ticked = l.ticked, !.covered = l.covered ]

Cmd(op, x, y) == [op |-> op, x |-> x, y |-> y]

\* Variant of VisibilityCmds that never shows the overlay again.
VisibilityCmds_never_show(covered, isVisible) ==
    IF covered /\ isVisible THEN << Cmd("hide", 0, 0) >> ELSE << >>

\* Variant of VisibilityCmds that does not consult isVisible().
VisibilityCmds_unconditional(covered, isVisible) ==
    IF covered THEN << Cmd("hide", 0, 0) >> ELSE << Cmd("show", 0, 0) >>

\* Step 1 of _tick: the show/hide command for this covered value.
VisibilityCmds(covered, isVisible) ==
    IF covered /\ isVisible THEN << Cmd("hide", 0, 0) >>
    ELSE IF ~covered /\ ~isVisible THEN << Cmd("show", 0, 0) >>
    ELSE << >>

\* Variant of position_step anchored at the target's left edge.
position_step_left(hwnd, rectRes, offset) ==
    IF hwnd = 0 THEN [cmds |-> << >>, raised |-> FALSE]
    ELSE IF rectRes = << >> THEN [cmds |-> << >>, raised |-> FALSE]
    ELSE [cmds |-> << Cmd("move", rectRes[1] + offset[1], rectRes[2] + offset[2]) >>,
          raised |-> FALSE]

\* Variant of position_step that ignores GetWindowRect's return value and uses
\* the zero-initialised RECT.
position_step_unchecked(hwnd, rectRes, offset) ==
    IF hwnd = 0 THEN [cmds |-> << >>, raised |-> FALSE]
    ELSE IF rectRes = << >>
    THEN [cmds |-> << Cmd("move", 0 + offset[1], 0 + offset[2]) >>, raised |-> FALSE]
    ELSE [cmds |-> << Cmd("move", rectRes[3] + offset[1], rectRes[2] + offset[2]) >>,
          raised |-> FALSE]

\* Variant of position_step without the try/except around get_window_rect.
position_step_uncaught(hwnd, rectRes, offset) ==
    IF hwnd = 0 THEN [cmds |-> << >>, raised |-> FALSE]
    ELSE IF rectRes = << >> THEN [cmds |-> << >>, raised |-> TRUE]
    ELSE [cmds |-> << Cmd("move", rectRes[3] + offset[1], rectRes[2] + offset[2]) >>,
          raised |-> FALSE]

\* Step 2 of _tick: the move command, if any; an OSError of get_window_rect is
\* caught (except Exception: pass), so nothing is raised out of the step.
position_step(hwnd, rectRes, offset) ==
    IF hwnd = 0 THEN [cmds |-> << >>, raised |-> FALSE]
    ELSE IF rectRes = << >> THEN [cmds |-> << >>, raised |-> FALSE]
    ELSE [cmds |-> << Cmd("move", rectRes[3] + offset[1], rectRes[2] + offset[2]) >>,
          raised |-> FALSE]

\* Variant of CleanShells that keeps the closed shells too.
CleanShells_keep_closed(ss, vis) == ss

\* Step 3 of _tick: the shells that stay in the list.
RECURSIVE CleanShells(_, _)
CleanShells(ss, vis) ==
    IF ss = << >> THEN << >>
    ELSE IF Head(ss) \in vis THEN << Head(ss) >> \o CleanShells(Tail(ss), vis)
    ELSE CleanShells(Tail(ss), vis)

\* QWidget.hide / QWidget.show
ApplyVisible(cmds, v) ==
    IF cmds = << >> THEN v ELSE cmds[1].op = "show"

\* QWidget.show of a hidden window removes a posted Quit event.
QuitAfter(cmds, posted) ==
    IF cmds # << >> /\ cmds[1].op = "show" THEN FALSE ELSE posted

\* QWidget.move
ApplyPos(cmds, p) ==
    IF cmds = << >> THEN p ELSE << cmds[1].x, cmds[1].y >>

\* The lifecycle scenario, followed tick by tick (no query raising):
\*   step 1: the overlay is visible, the target is minimized, a tick runs;
\*   step 2: then the target is restored and in the foreground, the next tick runs;
\*   step 3: then a third-party window is in the foreground and the target has not
\*           moved, the next tick runs.
\* Any other tick takes the history back to step 0.
NoScenario == [step |-> 0, rect |-> << >>, pos |-> <<0, 0>>]

ScenarioAfterTick(sc, fail, wasVisible, newPos) ==
    IF fail = {} /\ alive /\ iconic /\ wasVisible
    THEN [NoScenario EXCEPT !.step = 1]
    ELSE IF sc.step = 1 /\ fail = {} /\ alive /\ ~iconic /\ fg = hwnd_parent
    THEN [step |-> 2, rect |-> rect, pos |-> newPos]
    ELSE IF sc.step = 2 /\ fail = {} /\ alive /\ ~iconic /\ rect = sc.rect
            /\ fg \notin {NULL, hwnd_parent, Overlay}
    THEN [sc EXCEPT !.step = 3]
    ELSE NoScenario

\* Variant of tick_steps that repositions before it shows or hides.
tick_steps_move_first(hwnd, offset, isVisible, hwnd_overlay, icon, fgw, rectRes) ==
    LET covered == is_window_covered_or_not_foreground(hwnd, hwnd_overlay, icon, fgw)
        vcmds == VisibilityCmds(covered, isVisible)
        step2 == position_step(hwnd, rectRes, offset)
    IN  [ covered |-> covered, vcmds |-> vcmds, mcmds |-> step2.cmds,
          cmds |-> step2.cmds \o vcmds, raised |-> step2.raised ]

\* Variant of tick_steps that repositions only while the target is not covered.
tick_steps_move_if_shown(hwnd, offset, isVisible, hwnd_overlay, icon, fgw, rectRes) ==
    LET covered == is_window_covered_or_not_foreground(hwnd, hwnd_overlay, icon, fgw)
        vcmds == VisibilityCmds(covered, isVisible)
        step2 == IF covered THEN [cmds |-> << >>, raised |-> FALSE]
                 ELSE position_step(hwnd, rectRes, offset)
    IN  [ covered |-> covered, vcmds |-> vcmds, mcmds |-> step2.cmds,
          cmds |-> vcmds \o step2.cmds, raised |-> step2.raised ]

\* Variant of tick_steps that does one thing per tick: it repositions only in a
\* tick that neither shows nor hides.
tick_steps_one_per_tick(hwnd, offset, isVisible, hwnd_overlay, icon, fgw, rectRes) ==
    LET covered == is_window_covered_or_not_foreground(hwnd, hwnd_overlay, icon, fgw)
        vcmds == VisibilityCmds(covered, isVisible)
        step2 == IF vcmds # << >> THEN [cmds |-> << >>, raised |-> FALSE]
                 ELSE position_step(hwnd, rectRes, offset)
    IN  [ covered |-> covered, vcmds |-> vcmds, mcmds |-> step2.cmds,
          cmds |-> vcmds \o step2.cmds, raised |-> step2.raised ]

\* Steps 1 and 2 of _tick on the values it has read: the covered value, the
\* show/hide command, then the move command, in the order they are issued.
tick_steps(hwnd, offset, isVisible, hwnd_overlay, icon, fgw, rectRes) ==
    LET covered == is_window_covered_or_not_foreground(hwnd, hwnd_overlay, icon, fgw)
        vcmds == VisibilityCmds(covered, isVisible)
        step2 == position_step(hwnd, rectRes, offset)
    IN  [ covered |-> covered, vcmds |-> vcmds, mcmds |-> step2.cmds,
          cmds |-> vcmds \o step2.cmds, raised |-> step2.raised ]

\* Variant of target_view that checks, as the locator did, that the window is
\* still visible and still titled "Steam".
target_view_revalidated(isAlive, isIconic, r, title, wvis) ==
    [ alive |-> isAlive /\ wvis /\ strip(title) = Steam, iconic |-> isIconic, rect |-> r ]

\* What _tick's queries on the target handle depend on: whether the window
\* exists, IsIconic and GetWindowRect; _tick reads neither the window's title
\* nor IsWindowVisible.
target_view(isAlive, isIconic, r, title, wvis) ==
    [ alive |-> isAlive, iconic |-> isIconic, rect |-> r ]

\* Variant of tick_session that looks the target up again once its handle is
\* stale and a new target window exists.
tick_session_relocate(hwnd, offset, n, isAlive, newHwnd) ==
    IF ~isAlive /\ newHwnd # 0
    THEN [ hwnd_parent |-> newHwnd, rel_offset |-> offset, lookups |-> n + 1 ]
    ELSE [ hwnd_parent |-> hwnd, rel_offset |-> offset, lookups |-> n ]

\* The overlay's session fields after _tick: it assigns neither self.hwnd_parent
\* nor self.rel_offset and does not call find_window_by_title_exact, whatever
\* has become of the target.
tick_session(hwnd, offset, n, isAlive, newHwnd) ==
    [ hwnd_parent |-> hwnd, rel_offset |-> offset, lookups |-> n ]

\* Variant of timer_timeout for a scheduler that does not run on the event
\* loop (a free-running thread calling _tick): it goes on after app.exec() has
\* returned.
timer_timeout_detached(p, active) == p # "start"

\* self.timer.timeout, connected to self._tick: the signal of the QTimer
\* started in the constructor is emitted by the event loop, so only while
\* app.exec() runs.
timer_timeout(p, active) == p = "exec" /\ active

\* OverlayWindow._tick, with `fail` the set of queries that raise in this tick.
tick(fail) ==
    LET hwnd_overlay == winId(fail)
        tv == target_view(alive, iconic, rect, target.title, target.visible)
        icon == IsIconic(tv.alive, tv.iconic, fail)
        fgw == GetForegroundWindow(fg, fail)
        rectRes == get_window_rect(tv.alive, tv.rect, fail)
        t == tick_steps(hwnd_parent, rel_offset, visible, hwnd_overlay, icon, fgw, rectRes)
        covered == t.covered
        vcmds == t.vcmds
        step2 == [cmds |-> t.mcmds, raised |-> t.raised]
        sess == tick_session(hwnd_parent, rel_offset, lookups, alive,
                             IF reopened THEN Reopened ELSE NULL)
    IN  /\ timer_timeout(pc, timerActive)
        /\ hwnd_parent' = sess.hwnd_parent
        /\ rel_offset' = sess.rel_offset
        /\ lookups' = sess.lookups
        /\ visible' = ApplyVisible(vcmds, visible)
        /\ quitPosted' = QuitAfter(vcmds, quitPosted)
        /\ pos' = ApplyPos(step2.cmds, pos)
        /\ shells' = IF step2.raised THEN shells ELSE CleanShells(shells, shellVis)
        /\ last' = [ ticked |-> TRUE, fresh |-> TRUE, covered |-> covered, fail |-> fail,
                     hwnd_overlay |-> hwnd_overlay, iconic |-> icon, fg |-> fgw,
                     rect |-> rectRes,
                     prevCovered |-> IF last.ticked THEN (IF last.covered THEN 1 ELSE 0) ELSE -1,
                     wasVisible |-> visible, prePos |-> pos,
                     cmds |-> t.cmds, raised |-> step2.raised,
                     asked |-> covered_calls(hwnd_parent, icon, fgw) ]
        /\ scen' = ScenarioAfterTick(scen, fail, visible, pos')
        /\ UNCHANGED << pc, exitStatus, out, desktop, created, timerActive, auxVars,
                        nshells, shellVis, osVars >>

\* The timer fires.  Once the environment is frozen the queries that fail are
\* the same in every tick.
Tick == \E fail \in SUBSET Queries : (frozen.on => fail = frozen.fail) /\ tick(fail)

\* ------------------------------------------------------------ main
\* Variant of main that reports the failed lookup and carries on (as the
\* calibration tool's main does).
main_no_exit ==
    LET hwnd_steam == find_window_by_title_exact(desktop, Steam)
    IN  /\ pc = "start"
        /\ out' = Append(out, IF hwnd_steam = 0 THEN "not found" ELSE "found")
        /\ pc' = "exec"
        /\ hwnd_parent' = hwnd_steam
        /\ rel_offset' = MainOffset
        /\ created' = TRUE
        /\ timerActive' = TRUE
        /\ visible' = TRUE
        /\ UNCHANGED exitStatus
        /\ lookups' = lookups + 1
        /\ UNCHANGED << desktop, quitPosted, pos, shells, nshells, shellVis, osVars, last, scen,
                        auxVars >>

\* main(): the lookup, then either exit(1) or the overlay's construction
\* (which starts the timer), win.show() and the event loop.
main ==
    LET hwnd_steam == find_window_by_title_exact(desktop, Steam)
    IN  /\ pc = "start"
        /\ IF hwnd_steam = 0
           THEN /\ out' = Append(out, "not found")
                /\ pc' = "exit"
                /\ exitStatus' = 1
                /\ UNCHANGED << hwnd_parent, rel_offset, created, timerActive, visible >>
           ELSE /\ out' = Append(out, "found")
                /\ pc' = "exec"
                /\ hwnd_parent' = hwnd_steam
                /\ rel_offset' = MainOffset
                /\ created' = TRUE
                /\ timerActive' = TRUE
                /\ visible' = TRUE
                /\ UNCHANGED exitStatus
        /\ lookups' = lookups + 1
        /\ UNCHANGED << desktop, quitPosted, pos, shells, nshells, shellVis, osVars, last, scen,
                        auxVars >>

\* ------------------------------------------------------------ overlay events
\* OverlayWindow.mousePressEvent: a left click opens, shows and records a new
\* shell.
mousePressEvent(button) ==
    /\ pc = "exec"
    /\ visible
    /\ nshells < MaxShells
    /\ IF button = "left"
       THEN /\ nshells' = nshells + 1
            /\ shells' = Append(shells, nshells + 1)
            /\ shellVis' = shellVis \cup {nshells + 1}
            /\ quitPosted' = QuitAfter(<< Cmd("show", 0, 0) >>, quitPosted)
       ELSE UNCHANGED << nshells, shells, shellVis, quitPosted >>
    /\ last' = Past(last)
    /\ UNCHANGED << pc, exitStatus, out, desktop, hwnd_parent, rel_offset, created,
                    timerActive, lookups, auxVars, scen, visible, pos, osVars >>

MousePress == \E button \in {"left", "right"} : mousePressEvent(button)

\* The application has no visible window left once shell i is closed: the
\* overlay is hidden and i is the only visible shell.
LastWindowClosed(i, overlayVisible, vis) == ~overlayVisible /\ vis = {i}

\* CloseButton.mouseReleaseEvent on a shell: w.close(), after which the handler
\* returns to the event loop.  When that closes the application's last visible
\* window, Qt posts a Quit event.
CloseShell ==
    \E i \in shellVis :
        /\ pc = "exec"
        /\ ~frozen.on
        /\ shellVis' = shellVis \ {i}
        /\ fg' = IF fg = ShellHwnd(i) THEN NULL ELSE fg
        /\ last' = Past(last)
        /\ quitPosted' = (quitPosted \/ LastWindowClosed(i, visible, shellVis))
        /\ UNCHANGED << pc, exitStatus, created, timerActive, out, desktop, hwnd_parent,
                        rel_offset, lookups, auxVars, scen, visible, pos, shells, nshells,
                        alive, iconic, rect >>

\* The event loop delivers the posted Quit event: app.exec() returns 0 and
\* main() ends the process with sys.exit.  Timeouts and other events queued
\* before it are delivered first.
QuitEvent ==
    /\ pc = "exec"
    /\ quitPosted
    /\ pc' = "exit"
    /\ exitStatus' = 0
    /\ created' = FALSE
    /\ timerActive' = FALSE
    /\ quitPosted' = FALSE
    /\ last' = Past(last)
    /\ UNCHANGED << out, desktop, hwnd_parent, rel_offset, lookups, auxVars, scen,
                    visible, pos, shells, nshells, shellVis, osVars >>

\* ------------------------------------------------------------ window manager
ForegroundCandidates ==
    {NULL, Other} \cup (IF created THEN {Overlay} ELSE {})
        \cup (IF alive /\ target.visible THEN {hwnd_parent} ELSE {})
        \cup (IF reopened THEN {Reopened} ELSE {})
        \cup { ShellHwnd(i) : i \in shellVis }

SetForeground ==
    \E h \in ForegroundCandidates :
        /\ pc = "exec"
        /\ ~frozen.on
        /\ h # fg
        /\ fg' = h
        /\ last' = Past(last)
        /\ UNCHANGED << mainVars, auxVars, scen, visible, pos, shells, nshells, shellVis, alive, iconic, rect >>

ToggleMinimized ==
    /\ pc = "exec"
    /\ ~frozen.on
    /\ alive
    /\ iconic' = ~iconic
    /\ last' = Past(last)
    /\ UNCHANGED << mainVars, auxVars, scen, visible, pos, shells, nshells, shellVis, alive, rect, fg >>

MoveTarget ==
    \E r \in Rects :
        /\ pc = "exec"
        /\ ~frozen.on
        /\ alive
        /\ r # rect
        /\ rect' = r
        /\ last' = Past(last)
        /\ UNCHANGED << mainVars, auxVars, scen, visible, pos, shells, nshells, shellVis, alive, iconic, fg >>

\* The target window is closed: its handle goes stale.
DestroyTarget ==
    /\ pc = "exec"
    /\ ~frozen.on
    /\ alive
    /\ alive' = FALSE
    /\ iconic' = FALSE
    /\ fg' = IF fg = hwnd_parent THEN NULL ELSE fg
    /\ last' = Past(last)
    /\ UNCHANGED << mainVars, auxVars, scen, visible, pos, shells, nshells, shellVis, rect >>

\* The target application is started again after its window was closed: a new
\* window with a new handle.
ReopenTarget ==
    /\ pc = "exec"
    /\ ~frozen.on
    /\ ~alive
    /\ ~reopened
    /\ reopened' = TRUE
    /\ last' = Past(last)
    /\ UNCHANGED << mainVars, loc, frozen, toolVars, scen, visible, pos, shells, nshells, shellVis, osVars >>

\* The target window as the locator found it, and the titles it may take later.
FoundTarget == [title |-> Steam, visible |-> TRUE]
TargetTitles == { Steam, Steam \o <<"x">> }

\* The target application changes its window's title.
RetitleTarget ==
    \E t \in TargetTitles :
        /\ pc = "exec"
        /\ ~frozen.on
        /\ alive
        /\ t # target.title
        /\ target' = [target EXCEPT !.title = t]
        /\ last' = Past(last)
        /\ UNCHANGED << mainVars, loc, reopened, frozen, cal, pt, scen, visible, pos,
                        shells, nshells, shellVis, osVars >>

\* The target application hides or shows its window (ShowWindow); a hidden
\* window is not the foreground window.
ToggleTargetVisible ==
    /\ pc = "exec"
    /\ ~frozen.on
    /\ alive
    /\ target' = [target EXCEPT !.visible = ~target.visible]
    /\ fg' = IF target.visible /\ fg = hwnd_parent THEN NULL ELSE fg
    /\ last' = Past(last)
    /\ UNCHANGED << mainVars, loc, reopened, frozen, cal, pt, scen, visible, pos,
                    shells, nshells, shellVis, alive, iconic, rect >>

\* From now on the target's minimized flag, its rectangle and the foreground
\* window stay as they are, and the same queries fail in every tick.
NotFrozen == [on |-> FALSE, fail |-> {}]

Freeze ==
    \E f \in SUBSET Queries :
        /\ pc = "exec"
        /\ ~frozen.on
        /\ frozen' = [on |-> TRUE, fail |-> f]
        /\ last' = Past(last)
        /\ UNCHANGED << mainVars, loc, reopened, toolVars, scen, visible, pos, shells, nshells, shellVis, osVars >>

\* ------------------------------------------------------------ float arithmetic
\* Python's float is IEEE 754 binary64; scale_factor is computed with it.
\* Natural numbers of any size are little-endian sequences of limbs below
\* Limb, without leading zero limbs (<< >> is 0).
Limb == 32768
LimbBits == 15

Pow2(n) ==
    << 1, 2, 4, 8, 16, 32, 64, 128, 256, 512, 1024, 2048, 4096, 8192, 16384, 32768 >>[n + 1]

RECURSIVE BitLen(_)
BitLen(n) == IF n = 0 THEN 0 ELSE 1 + BitLen(n \div 2)

Rest(a) == IF a = << >> THEN << >> ELSE Tail(a)
Digit(a, i) == IF i >= 1 /\ i <= Len(a) THEN a[i] ELSE 0

RECURSIVE NTrim(_)
NTrim(a) ==
    IF a # << >> /\ a[Len(a)] = 0 THEN NTrim(SubSeq(a, 1, Len(a) - 1)) ELSE a

RECURSIVE NFromInt(_)
NFromInt(n) == IF n = 0 THEN << >> ELSE << n % Limb >> \o NFromInt(n \div Limb)

RECURSIVE NToInt(_)
NToInt(a) == IF a = << >> THEN 0 ELSE a[1] + Limb * NToInt(Tail(a))

\* a + b + c, c a carry
RECURSIVE NAddC(_, _, _)
NAddC(a, b, c) ==
    IF a = << >> /\ b = << >> THEN NFromInt(c)
    ELSE LET s == Digit(a, 1) + Digit(b, 1) + c
         IN  << s % Limb >> \o NAddC(Rest(a), Rest(b), s \div Limb)

NAdd(a, b) == NAddC(a, b, 0)

\* a - b - c for a >= b + c, c a borrow; leading zero limbs are kept
RECURSIVE NSubC(_, _, _)
NSubC(a, b, c) ==
    IF a = << >> THEN << >>
    ELSE LET d == a[1] - Digit(b, 1) - c
         IN  IF d < 0 THEN << d + Limb >> \o NSubC(Tail(a), Rest(b), 1)
             ELSE << d >> \o NSubC(Tail(a), Rest(b), 0)

NSub(a, b) == NTrim(NSubC(a, b, 0))

\* whether a < b, comparing from limb i downwards (equal above i)
RECURSIVE NLessFrom(_, _, _)
NLessFrom(a, b, i) ==
    IF i = 0 THEN FALSE
    ELSE IF a[i] # b[i] THEN a[i] < b[i]
    ELSE NLessFrom(a, b, i - 1)

NLess(a, b) ==
    IF Len(a) # Len(b) THEN Len(a) < Len(b) ELSE NLessFrom(a, b, Len(a))

\* a * d + c for 0 <= d < Limb, c a carry; leading zero limbs are kept
RECURSIVE NMulSmallC(_, _, _)
NMulSmallC(a, d, c) ==
    IF a = << >> THEN NFromInt(c)
    ELSE LET s == a[1] * d + c
         IN  << s % Limb >> \o NMulSmallC(Tail(a), d, s \div Limb)

NMulSmall(a, d) == NTrim(NMulSmallC(a, d, 0))

\* a * Limb^k
NShiftLimbs(a, k) == IF a = << >> THEN << >> ELSE [i \in 1..k |-> 0] \o a

RECURSIVE NMul(_, _)
NMul(a, b) ==
    IF b = << >> THEN << >>
    ELSE NAdd(NMulSmall(a, b[1]), NShiftLimbs(NMul(a, Tail(b)), 1))

\* a * 2^s
NMulPow2(a, s) == NShiftLimbs(NMulSmall(a, Pow2(s % LimbBits)), s \div LimbBits)

\* floor(a / 2^s)
NDivPow2(a, s) ==
    LET k == s \div LimbBits
        r == s % LimbBits
        b == IF k >= Len(a) THEN << >> ELSE SubSeq(a, k + 1, Len(a))
    IN  NTrim([i \in 1..Len(b) |->
                 (b[i] \div Pow2(r)) + (Digit(b, i + 1) % Pow2(r)) * Pow2(LimbBits - r)])

\* whether a is a multiple of 2^s
NLowZero(a, s) ==
    /\ \A i \in 1..(s \div LimbBits) : Digit(a, i) = 0
    /\ Digit(a, s \div LimbBits + 1) % Pow2(s % LimbBits) = 0

\* bit i of a, bit 0 the lowest
NBit(a, i) == (Digit(a, i \div LimbBits + 1) \div Pow2(i % LimbBits)) % 2

NBitLen(a) == IF a = << >> THEN 0 ELSE LimbBits * (Len(a) - 1) + BitLen(a[Len(a)])

\* The quotient digit q and remainder r of r0 by b, q0 a digit not above q
\* with r0 = the dividend less q0 * b.
RECURSIVE DigitFix(_, _, _)
DigitFix(q0, r0, b) ==
    IF NLess(r0, b) THEN [q |-> q0, r |-> r0] ELSE DigitFix(q0 + 1, NSub(r0, b), b)

\* Long division of a by b, whose top limb is at least Limb / 2: the limbs of
\* a from i downwards are still to be brought down, q and r are the quotient
\* and the remainder so far.
RECURSIVE LongDiv(_, _, _, _, _)
LongDiv(a, b, i, q, r) ==
    IF i = 0 THEN [q |-> NTrim(q), r |-> r]
    ELSE IF r = << >> /\ a[i] = 0 THEN LongDiv(a, b, i - 1, << 0 >> \o q, << >>)
    ELSE LET r1 == NTrim(<< a[i] >> \o r)
             n == Len(b)
             q0 == (Digit(r1, n + 1) * Limb + Digit(r1, n)) \div (b[n] + 1)
             f == DigitFix(q0, NSub(r1, NMulSmall(b, q0)), b)
         IN  IF NLess(r1, b) THEN LongDiv(a, b, i - 1, << 0 >> \o q, r1)
             ELSE LongDiv(a, b, i - 1, << f.q >> \o q, f.r)

\* floor(a / b) and a mod b, for b > 0
NDivMod(a, b) ==
    LET k == LimbBits - BitLen(b[Len(b)])
        an == NMulPow2(a, k)
        d == LongDiv(an, NMulPow2(b, k), Len(an), << >>, << >>)
    IN  [q |-> d.q, r |-> NDivPow2(d.r, k)]

\* A positive normal binary64 value is [m, e] with value m * 2^e and m of
\* exactly 53 bits.  (Exponent overflow and underflow take thousands of key
\* presses and are not modelled.)
\* The binary64 value nearest to n * 2^e (n > 0), ties to even; sticky tells
\* that the exact value is a little above n * 2^e.
RoundFloat(n, e, sticky) ==
    LET len == NBitLen(n)
        s == len - 53
    IN  IF s <= 0 THEN [m |-> NMulPow2(n, 0 - s), e |-> e + s]
        ELSE LET q == NDivPow2(n, s)
                 half == NBit(n, s - 1) = 1
                 rest == sticky \/ ~NLowZero(n, s - 1)
                 up == half /\ (rest \/ NBit(q, 0) = 1)
                 q1 == IF up THEN NAdd(q, << 1 >>) ELSE q
             IN  IF NBitLen(q1) > 53 THEN [m |-> NDivPow2(q1, 1), e |-> e + s + 1]
                 ELSE [m |-> q1, e |-> e + s]

FloatMul(x, y) == RoundFloat(NMul(x.m, y.m), x.e + y.e, FALSE)

FloatDiv(x, y) ==
    LET d == NDivMod(NMulPow2(x.m, 56), y.m)
    IN  RoundFloat(d.q, x.e - y.e - 56, d.r # << >>)

\* int(x): truncation
IntOfFloat(x) ==
    IF x.e >= 0 THEN NToInt(NMulPow2(x.m, x.e)) ELSE NToInt(NDivPow2(x.m, 0 - x.e))

\* The floats 1.0 and 1.05 (0x1.0cccccccccccdp+0).
Float_1_0 == [m |-> << 0, 0, 0, 128 >>, e |-> -52]
Float_1_05 == [m |-> << 19661, 6553, 13107, 134 >>, e |-> -52]

\* x * n for an integer n > 0 that a float holds exactly (n < 2^31)
FloatMulInt(x, n) == RoundFloat(NMul(x.m, NFromInt(n)), x.e, FALSE)

\* max(1, int(p * scale_factor)), p an image dimension
Scaled(p, scale_factor) ==
    LET v == IF p = 0 THEN 0 ELSE IntOfFloat(FloatMulInt(scale_factor, p))
    IN  IF v < 1 THEN 1 ELSE v

\* ------------------------------------------------------------ calibration tool
\* The state of cal before the tool has been given anything.
NoCal == [ pc |-> "none" ]

\* Rectangles <<left, top, right, bottom>> GetWindowRect may report to the tool.
CalCoords == (0 - MaxCoord)..MaxCoord
CalRects == { <<l, t, l + w, t + 1>> : l \in CalCoords, t \in CalCoords, w \in {1, 2} }
\* Desktops the tool may start on: without and with a window titled "Steam".
CalDesktops == { << >>, << Win(1, TRUE, Steam) >> }
\* Keys and mouse buttons the tool's window may receive.
CalKeys == { "Up", "Down", "Other" }
CalButtons == { "left", "right", "middle" }

\* The rectangle read of a double-click that fails, if any: the first failure
\* ends the handler.
CalFails == { "none", "target", "own" }

\* The tool at process start, on desktop ws, with its window at win and of the
\* size of its image.  The fields from clicked on describe the double-click
\* that has just run: steamRect the target's rectangle that its offset was
\* computed from (none when it reported no offset), fail the rectangle read
\* that was failing during it.
CalStart(ws, win) ==
    [ pc |-> "start", ws |-> ws, win |-> win,
      pixmap |-> << win[3] - win[1], win[4] - win[2] >>, scale_factor |-> Float_1_0,
      dragging |-> FALSE, drag_pos |-> <<0, 0>>,
      hwnd_steam |-> NULL, out |-> << >>, closed |-> FALSE, quitPosted |-> FALSE,
      exited |-> FALSE, status |-> -1,
      clicked |-> FALSE, steamRect |-> << >>, fail |-> "none", prev |-> << >>,
      rel_info |-> "none", rel |-> << >>, reads |-> << >>, raised |-> FALSE,
      tracked |-> FALSE, track |-> << >> ]

\* get_window_rect of the tool for a window at r: the rectangle, or << >> when
\* GetWindowRect fails and OSError is raised.
test_get_window_rect(r, fails) == IF fails THEN << >> ELSE r

\* The record of the last double-click, once another handler has run.
Stale(c) ==
    [ c EXCEPT !.clicked = FALSE, !.steamRect = << >>, !.fail = "none", !.prev = << >>,
               !.rel_info = "none",
               !.rel = << >>, !.reads = << >>, !.raised = FALSE, !.tracked = FALSE,
               !.track = << >> ]

\* main() of the calibration tool: the lookup and its message, then the window
\* and the event loop in either case.
test_main(c) ==
    LET hwnd_steam == find_window_by_title_exact(c.ws, Steam)
    IN  [ c EXCEPT !.pc = "exec", !.hwnd_steam = hwnd_steam,
                   !.out = Append(c.out, IF hwnd_steam = NULL THEN "not found" ELSE "found") ]

\* ImageWindow.keyPressEvent: Up and Down change scale_factor, resize the
\* window to the scaled image size and print a scale line; other keys do
\* nothing.
ImageWindow_keyPressEvent(c, key) ==
    IF key \notin { "Up", "Down" } THEN c
    ELSE LET sf == IF key = "Up" THEN FloatMul(c.scale_factor, Float_1_05)
                   ELSE FloatDiv(c.scale_factor, Float_1_05)
             w == Scaled(c.pixmap[1], sf)
             h == Scaled(c.pixmap[2], sf)
         IN  [ c EXCEPT !.scale_factor = sf,
                        !.win = << c.win[1], c.win[2], c.win[1] + w, c.win[2] + h >>,
                        !.out = Append(c.out, "scale") ]

\* self.close() of the tool's only window: the window is hidden and, as it
\* was the last one, Qt posts a Quit event; the handler then returns to the
\* event loop.
ImageWindow_close(c) == [ c EXCEPT !.closed = TRUE, !.quitPosted = TRUE ]

\* The event loop delivers the posted Quit event: app.exec() returns 0 and
\* main() ends the process with sys.exit.
test_main_exit(c) ==
    [ c EXCEPT !.pc = "exit", !.exited = TRUE, !.status = 0, !.quitPosted = FALSE ]

\* ImageWindow.mousePressEvent with the pointer at g: the left button starts a
\* drag, the right button closes the window.
ImageWindow_mousePressEvent(c, button, g) ==
    IF button = "left"
    THEN [ c EXCEPT !.dragging = TRUE, !.drag_pos = << g[1] - c.win[1], g[2] - c.win[2] >> ]
    ELSE IF button = "right" THEN ImageWindow_close(c)
    ELSE c

\* ImageWindow.mouseMoveEvent with the pointer at g: a drag moves the window.
ImageWindow_mouseMoveEvent(c, g) ==
    IF c.dragging
    THEN LET l == g[1] - c.drag_pos[1]
             t == g[2] - c.drag_pos[2]
         IN  [ c EXCEPT !.win = << l, t, l + (c.win[3] - c.win[1]), t + (c.win[4] - c.win[2]) >> ]
    ELSE c

\* ImageWindow.mouseReleaseEvent.
ImageWindow_mouseReleaseEvent(c) == [ c EXCEPT !.dragging = FALSE ]

\* Variant of mouseDoubleClickEvent that measures from the target's left edge.
mouseDoubleClickEvent_from_left(hwnd_steam, steamRes, myRes) ==
    IF hwnd_steam = NULL
    THEN [ rel_info |-> "target not found", rel |-> << >>, reads |-> << >>,
           raised |-> FALSE, printed |-> TRUE ]
    ELSE IF steamRes = << >>
    THEN [ rel_info |-> "none", rel |-> << >>, reads |-> << "target" >>,
           raised |-> TRUE, printed |-> FALSE ]
    ELSE IF myRes = << >>
    THEN [ rel_info |-> "none", rel |-> << >>, reads |-> << "target", "own" >>,
           raised |-> TRUE, printed |-> FALSE ]
    ELSE [ rel_info |-> "offset",
           rel |-> << myRes[1] - steamRes[1], myRes[2] - steamRes[2] >>,
           reads |-> << "target", "own" >>, raised |-> FALSE, printed |-> TRUE ]

\* Variant of mouseDoubleClickEvent that catches the OSError of a rectangle
\* read and reports the target as not found.
mouseDoubleClickEvent_caught(hwnd_steam, steamRes, myRes) ==
    IF hwnd_steam = NULL
    THEN [ rel_info |-> "target not found", rel |-> << >>, reads |-> << >>,
           raised |-> FALSE, printed |-> TRUE ]
    ELSE IF steamRes = << >>
    THEN [ rel_info |-> "target not found", rel |-> << >>, reads |-> << "target" >>,
           raised |-> FALSE, printed |-> TRUE ]
    ELSE IF myRes = << >>
    THEN [ rel_info |-> "target not found", rel |-> << >>, reads |-> << "target", "own" >>,
           raised |-> FALSE, printed |-> TRUE ]
    ELSE [ rel_info |-> "offset",
           rel |-> << myRes[1] - steamRes[3], myRes[2] - steamRes[2] >>,
           reads |-> << "target", "own" >>, raised |-> FALSE, printed |-> TRUE ]

\* ImageWindow.mouseDoubleClickEvent, the part that reports the offset: the
\* rectangle reads it makes, whether OSError leaves the handler, and the offset
\* information of the line it prints (it prints none when it raises).
mouseDoubleClickEvent(hwnd_steam, steamRes, myRes) ==
    IF hwnd_steam = NULL
    THEN [ rel_info |-> "target not found", rel |-> << >>, reads |-> << >>,
           raised |-> FALSE, printed |-> TRUE ]
    ELSE IF steamRes = << >>
    THEN [ rel_info |-> "none", rel |-> << >>, reads |-> << "target" >>,
           raised |-> TRUE, printed |-> FALSE ]
    ELSE IF myRes = << >>
    THEN [ rel_info |-> "none", rel |-> << >>, reads |-> << "target", "own" >>,
           raised |-> TRUE, printed |-> FALSE ]
    ELSE [ rel_info |-> "offset",
           rel |-> << myRes[1] - steamRes[3], myRes[2] - steamRes[2] >>,
           reads |-> << "target", "own" >>, raised |-> FALSE, printed |-> TRUE ]

\* The tool starts.
TestMain ==
    /\ pc = "calib"
    /\ cal.pc = "start"
    /\ cal' = test_main(cal)
    /\ UNCHANGED << mainVars, loc, reopened, frozen, target, pt, scen, visible, pos,
                    shells, nshells, shellVis, osVars, last >>

\* The event loop of the tool delivers the Quit posted when its window was
\* closed.  Input queued before it is delivered first, and the handlers, which
\* do not test whether the window is closed, act on it as on an open window.
ToolQuitEvent ==
    /\ pc = "calib"
    /\ cal.pc = "exec"
    /\ cal.quitPosted
    /\ cal' = test_main_exit(cal)
    /\ UNCHANGED << mainVars, loc, reopened, frozen, target, pt, scen, visible, pos,
                    shells, nshells, shellVis, osVars, last >>

\* The user presses a key in the tool's window; the lines printed are capped
\* at MaxLines.
KeyPress ==
    /\ pc = "calib"
    /\ cal.pc = "exec"
    /\ \E key \in CalKeys :
          /\ key \in { "Up", "Down" } => Len(cal.out) < MaxLines
          /\ cal' = Stale(ImageWindow_keyPressEvent(cal, key))
    /\ UNCHANGED << mainVars, loc, reopened, frozen, target, pt, scen, visible, pos,
                    shells, nshells, shellVis, osVars, last >>

\* The user presses a mouse button with the pointer inside the tool's window.
ToolMousePress ==
    /\ pc = "calib"
    /\ cal.pc = "exec"
    /\ \E button \in CalButtons :
          \E x \in cal.win[1]..(cal.win[3] - 1), y \in cal.win[2]..(cal.win[4] - 1) :
             cal' = Stale(ImageWindow_mousePressEvent(cal, button, << x, y >>))
    /\ UNCHANGED << mainVars, loc, reopened, frozen, target, pt, scen, visible, pos,
                    shells, nshells, shellVis, osVars, last >>

\* The user moves the pointer with a button held; during a drag the pointer
\* positions are those that keep the window's corner within CalCoords.
ToolMouseMove ==
    /\ pc = "calib"
    /\ cal.pc = "exec"
    /\ \E l \in (IF cal.dragging THEN CalCoords ELSE { cal.win[1] }),
          t \in (IF cal.dragging THEN CalCoords ELSE { cal.win[2] }) :
          cal' = Stale(ImageWindow_mouseMoveEvent(cal, << l + cal.drag_pos[1],
                                                         t + cal.drag_pos[2] >>))
    /\ UNCHANGED << mainVars, loc, reopened, frozen, target, pt, scen, visible, pos,
                    shells, nshells, shellVis, osVars, last >>

\* The user releases the mouse button.
ToolMouseRelease ==
    /\ pc = "calib"
    /\ cal.pc = "exec"
    /\ cal' = Stale(ImageWindow_mouseReleaseEvent(cal))
    /\ UNCHANGED << mainVars, loc, reopened, frozen, target, pt, scen, visible, pos,
                    shells, nshells, shellVis, osVars, last >>

\* The user double-clicks the tool's window, which reads the rectangles as
\* they are now: the target's is steamRect (a desktop without the target has
\* none), the tool's own is where its window lies, and a read may fail.
\* The release between the two presses has ended any drag, and the release
\* that ends a double-click comes before the next one.
DoubleClick ==
    /\ pc = "calib"
    /\ cal.pc = "exec"
    /\ ~cal.dragging
    /\ ~cal.clicked
    /\ Len(cal.out) < MaxLines
    /\ \E steamRect \in (IF cal.hwnd_steam = NULL THEN { << >> } ELSE CalRects),
          fail \in CalFails :
          LET r == mouseDoubleClickEvent(cal.hwnd_steam,
                       test_get_window_rect(steamRect, fail = "target"),
                       test_get_window_rect(cal.win, fail = "own"))
          IN  cal' = [ cal EXCEPT !.clicked = TRUE,
                                  !.steamRect = IF r.rel_info = "offset" THEN steamRect
                                                ELSE << >>,
                                  !.fail = fail,
                                  !.prev = cal.out,
                                  !.rel_info = r.rel_info, !.rel = r.rel,
                                  !.reads = r.reads, !.raised = r.raised,
                                  !.tracked = FALSE, !.track = << >>,
                                  !.out = IF r.printed THEN Append(cal.out, r.rel_info)
                                          ELSE cal.out ]
    /\ UNCHANGED << mainVars, loc, reopened, frozen, target, pt, scen, visible, pos,
                    shells, nshells, shellVis, osVars, last >>

\* The reported offset is given to the tracker as its rel_offset, and the
\* tracker's tick positions the overlay for the same target rectangle.
TrackCalibrated ==
    /\ pc = "calib"
    /\ cal.clicked
    /\ cal.rel_info = "offset"
    /\ ~cal.tracked
    /\ cal' = [ cal EXCEPT !.tracked = TRUE,
                           !.track = position_step(cal.hwnd_steam, cal.steamRect, cal.rel).cmds ]
    /\ UNCHANGED << mainVars, loc, reopened, frozen, target, pt, scen, visible, pos,
                    shells, nshells, shellVis, osVars, last >>

\* ------------------------------------------------------------ position trackers
\* The state of pt while no run is recorded.
NoRun == [ hwnd |-> NULL, offset |-> <<0, 0>>, reads |-> << >>,
           tick |-> << >>, update |-> << >> ]

\* Variant of update_position that anchors at the target's left edge.
update_position_left(hwnd, rectRes, offset) ==
    IF hwnd = 0 THEN [cmds |-> << >>, raised |-> FALSE]
    ELSE IF rectRes = << >> THEN [cmds |-> << >>, raised |-> FALSE]
    ELSE [cmds |-> << Cmd("move", rectRes[1] + offset[1], rectRes[2] + offset[2]) >>,
          raised |-> FALSE]

\* OverlayWindow.update_position of the position-only tracker: nothing for an
\* absent handle; otherwise the rectangle read and move(r + dx, t + dy), with
\* the OSError of a failed read caught.
update_position(hwnd, rectRes, offset) ==
    IF hwnd = 0 THEN [cmds |-> << >>, raised |-> FALSE]
    ELSE IF rectRes = << >> THEN [cmds |-> << >>, raised |-> FALSE]
    ELSE LET new_x == rectRes[3] + offset[1]
             new_y == rectRes[2] + offset[2]
         IN  [cmds |-> << Cmd("move", new_x, new_y) >>, raised |-> FALSE]

\* Both trackers' timers fire: each reads the target's rectangle, which the OS
\* answers with rectRes (<< >> for a failing GetWindowRect), and issues its
\* commands.
TrackStep ==
    \E rectRes \in Rects \cup { << >> } :
        /\ pc = "track"
        /\ Len(pt.reads) < MaxReads
        /\ pt' = [ pt EXCEPT
                     !.reads = Append(pt.reads, rectRes),
                     !.tick = pt.tick \o position_step(pt.hwnd, rectRes, pt.offset).cmds,
                     !.update = pt.update \o update_position(pt.hwnd, rectRes, pt.offset).cmds ]
        /\ UNCHANGED << mainVars, loc, reopened, frozen, target, cal, scen, visible, pos,
                        shells, nshells, shellVis, osVars, last >>

\* ------------------------------------------------------------ specification
Init ==
    /\ pc = "start"
    /\ exitStatus = -1
    /\ out = << >>
    /\ desktop \in StartDesktops
    /\ hwnd_parent = 0
    /\ rel_offset = <<0, 0>>
    /\ created = FALSE
    /\ timerActive = FALSE
    /\ quitPosted = FALSE
    /\ visible = FALSE
    /\ pos = <<0, 0>>
    /\ shells = << >>
    /\ nshells = 0
    /\ shellVis = {}
    /\ alive = TRUE
    /\ iconic \in BOOLEAN
    /\ rect \in Rects
    /\ fg \in {NULL, Other}
    /\ last = NoTick
    /\ scen = NoScenario
    /\ loc = NoCall
    /\ lookups = 0
    /\ reopened = FALSE
    /\ frozen = NotFrozen
    /\ target = FoundTarget
    /\ cal = NoCal
    /\ pt = NoRun

Next ==
    \/ main
    \/ Tick
    \/ MousePress
    \/ CloseShell
    \/ QuitEvent
    \/ SetForeground
    \/ ToggleMinimized
    \/ MoveTarget
    \/ DestroyTarget

Spec == Init /\ [][Next]_vars

\* The session with a target application that may be started again.
NextReopen == Next \/ ReopenTarget

SpecReopen == Init /\ [][NextReopen]_vars

\* The session of the overlay without its shells, in an environment that may
\* stop changing, with the 1 ms timer scheduled fairly by the event loop.
NextFair ==
    \/ main
    \/ Tick
    \/ SetForeground
    \/ ToggleMinimized
    \/ MoveTarget
    \/ DestroyTarget
    \/ Freeze

\* It starts on a desktop where main() finds the target.
InitFair == Init /\ desktop = << Win(1, TRUE, Steam) >>

SpecFair == InitFair /\ [][NextFair]_vars /\ WF_vars(Tick)

\* The calibration tool, started on every desktop and at every place of its
\* window, then used with keys and mouse, the target having any rectangle at
\* a double-click; the tracker is run with an offset the tool has just
\* reported.
InitCalib ==
    /\ pc = "calib"
    /\ exitStatus = -1
    /\ out = << >>
    /\ desktop = << >>
    /\ hwnd_parent = 0
    /\ rel_offset = MainOffset
    /\ created = FALSE
    /\ timerActive = FALSE
    /\ quitPosted = FALSE
    /\ visible = FALSE
    /\ pos = <<0, 0>>
    /\ shells = << >>
    /\ nshells = 0
    /\ shellVis = {}
    /\ alive = TRUE
    /\ iconic = FALSE
    /\ rect = <<100, 50, 300, 400>>
    /\ fg = NULL
    /\ last = NoTick
    /\ scen = NoScenario
    /\ loc = NoCall
    /\ lookups = 0
    /\ reopened = FALSE
    /\ frozen = NotFrozen
    /\ target = FoundTarget
    /\ pt = NoRun
    /\ \E ws \in CalDesktops, win \in CalRects : cal = CalStart(ws, win)

NextCalib ==
    \/ TestMain
    \/ KeyPress
    \/ ToolMousePress
    \/ ToolMouseMove
    \/ ToolMouseRelease
    \/ DoubleClick
    \/ ToolQuitEvent
    \/ TrackCalibrated

SpecCalib == InitCalib /\ [][NextCalib]_vars

\* The positioning step of _tick and update_position of the position-only
\* tracker, run side by side on every sequence of up to MaxReads rectangle
\* reads, for an absent and a present target handle and every offset.
InitTrack ==
    /\ pc = "track"
    /\ exitStatus = -1
    /\ out = << >>
    /\ desktop = << >>
    /\ hwnd_parent = 0
    /\ rel_offset = MainOffset
    /\ created = FALSE
    /\ timerActive = FALSE
    /\ quitPosted = FALSE
    /\ visible = FALSE
    /\ pos = <<0, 0>>
    /\ shells = << >>
    /\ nshells = 0
    /\ shellVis = {}
    /\ alive = TRUE
    /\ iconic = FALSE
    /\ rect = <<100, 50, 300, 400>>
    /\ fg = NULL
    /\ last = NoTick
    /\ scen = NoScenario
    /\ loc = NoCall
    /\ lookups = 0
    /\ reopened = FALSE
    /\ frozen = NotFrozen
    /\ target = FoundTarget
    /\ cal = NoCal
    /\ \E h \in {NULL, 1}, o \in Offsets :
          pt = [ NoRun EXCEPT !.hwnd = h, !.offset = o ]

NextTrack == TrackStep

SpecTrack == InitTrack /\ [][NextTrack]_vars

\* The session of the overlay and its shells, with the foreground changing and
\* the target closing as the only other events.
NextShells ==
    \/ main
    \/ Tick
    \/ MousePress
    \/ CloseShell
    \/ QuitEvent
    \/ SetForeground
    \/ DestroyTarget

SpecShells == InitFair /\ [][NextShells]_vars

\* The session of the overlay without its shells, with a target window that
\* may change its title and its visibility flag after the lookup.
NextIdentity ==
    \/ main
    \/ Tick
    \/ SetForeground
    \/ ToggleMinimized
    \/ MoveTarget
    \/ DestroyTarget
    \/ RetitleTarget
    \/ ToggleTargetVisible

SpecIdentity == InitFair /\ [][NextIdentity]_vars

\* ------------------------------------------------------------ the locator alone
\* find_window_by_title_exact applied to every desktop of up to MaxWindows
\* windows, every wanted title, and every point at which EnumWindows may fail.
InitLocate ==
    /\ pc = "locate"
    /\ exitStatus = -1
    /\ out = << >>
    /\ desktop = << >>
    /\ hwnd_parent = 0
    /\ rel_offset = MainOffset
    /\ created = FALSE
    /\ timerActive = FALSE
    /\ quitPosted = FALSE
    /\ visible = FALSE
    /\ pos = <<0, 0>>
    /\ shells = << >>
    /\ nshells = 0
    /\ shellVis = {}
    /\ alive = TRUE
    /\ iconic = FALSE
    /\ rect = <<100, 50, 300, 400>>
    /\ fg = NULL
    /\ last = NoTick
    /\ scen = NoScenario
    /\ lookups = 0
    /\ reopened = FALSE
    /\ frozen = NotFrozen
    /\ target = FoundTarget
    /\ cal = NoCal
    /\ pt = NoRun
    /\ \E ws \in Desktops, t \in WantedTitles :
          \E f \in {NoFail} \cup (0..Len(ws)) :
             loc = [NoCall EXCEPT !.ws = ws, !.title = t, !.failAt = f]

Locate ==
    /\ pc = "locate"
    /\ ~loc.done
    /\ LET r == locate(loc.ws, loc.title, loc.failAt)
       IN  loc' = [ loc EXCEPT !.done = TRUE, !.val = r.val, !.raised = r.raised,
                    !.result = r.result, !.examined = r.examined,
                    !.enumOk = r.enumOk, !.error = r.error ]
    /\ UNCHANGED << mainVars, reopened, frozen, toolVars, visible, pos, shells, nshells, shellVis,
                    osVars, last, scen >>

NextLocate == Locate

SpecLocate == InitLocate /\ [][NextLocate]_vars

\* ------------------------------------------------------------ properties
\* What the formulas below read from the record of the tick that has just run.
Ticked == last.fresh
HasCmd(op) == \E i \in 1..Len(last.cmds) : last.cmds[i].op = op
VisibilityCmdIssued == HasCmd("show") \/ HasCmd("hide")
\* The overlay's anchor for target rectangle r: (right + dx, top + dy).
Anchor(r) == << r[3] + rel_offset[1], r[2] + rel_offset[2] >>
\* The rectangle read of the tick that has just run succeeded.
RectRead == alive /\ "GetWindowRect" \notin last.fail

\* C1 (as claimed): after every tick, if the target handle is absent or stale, or
\* the target is minimized, or the foreground window is neither the target nor
\* the overlay, then the tick computed covered = TRUE.
C1_FailSafeCovering ==
    Ticked =>
        ( ( \/ hwnd_parent = 0
            \/ ~alive
            \/ iconic
            \/ fg \notin {hwnd_parent, Overlay} )
          => last.covered )

\* C2 (as claimed): after every tick, if the foreground window is the target or
\* the overlay, the tick computed covered = FALSE.
C2_ForegroundExemptions ==
    Ticked => ( fg \in {hwnd_parent, Overlay} => ~last.covered )

\* C2 (amended): after every tick in which the minimized check succeeded and did
\* not report the target minimized and the foreground read succeeded, if the
\* foreground window is the target, or is the overlay and the overlay's handle
\* was read, the tick computed covered = FALSE.
C2_ForegroundExemptionsAmended ==
    ( /\ Ticked
      /\ hwnd_parent # 0
      /\ ~(alive /\ iconic)
      /\ "IsIconic" \notin last.fail
      /\ "GetForegroundWindow" \notin last.fail
      /\ \/ fg = hwnd_parent
         \/ fg = Overlay /\ "winId" \notin last.fail )
    => ~last.covered

\* C2 witness: a tick that read the overlay's handle found the overlay in the
\* foreground of an unminimized target and computed covered = FALSE.
C2_Witness ==
    /\ Ticked /\ alive /\ ~iconic /\ fg = Overlay /\ last.fail = {}
    /\ ~last.covered

\* C3: when a tick completes, the overlay is visible iff the tick computed
\* covered = FALSE, whatever its visibility was before the tick.
C3_VisibleIffNotCovered ==
    Ticked => ( visible <=> ~last.covered )

\* C3 witness: a tick that found the overlay hidden and left it visible.
C3_Witness ==
    Ticked /\ ~last.wasVisible /\ visible /\ ~last.covered

\* C4: a tick whose covered value agrees with the overlay's visibility issues
\* neither show nor hide; so does a tick that computes the same covered value as
\* the tick before it; and no tick issues more than one show/hide command.
C4_IdempotentVisibility ==
    Ticked =>
        /\ (last.wasVisible = ~last.covered) => ~VisibilityCmdIssued
        /\ (last.prevCovered = (IF last.covered THEN 1 ELSE 0)) => ~VisibilityCmdIssued
        /\ Cardinality({ i \in 1..Len(last.cmds) : last.cmds[i].op \in {"show", "hide"} }) <= 1

\* C4 witness: a second consecutive covered tick, which issued no show/hide.
C4_Witness ==
    Ticked /\ last.covered /\ last.prevCovered = 1 /\ ~VisibilityCmdIssued

\* C5: after every tick that read the target's rectangle (L,T,R,B), the overlay
\* is at (R + dx, T + dy), (dx, dy) being the offset main() passes, and the
\* tick issued the move to exactly that point;
\* rectangle (100,50,300,400) with offset (-617,7) gives (-317,57).
C5_PositionFormula ==
    ( Ticked /\ RectRead ) =>
        /\ pos = Anchor(rect)
        /\ \E i \in 1..Len(last.cmds) :
              last.cmds[i] = Cmd("move", rect[3] + rel_offset[1], rect[2] + rel_offset[2])
        /\ ( rect = <<100, 50, 300, 400>> /\ rel_offset = <<-617, 7>> ) => pos = <<-317, 57>>

\* C5 witness: the worked example, with the overlay brought there by the tick.
C5_Witness ==
    /\ Ticked /\ RectRead /\ rect = <<100, 50, 300, 400>> /\ rel_offset = <<-617, 7>>
    /\ last.prePos # <<-317, 57>> /\ pos = <<-317, 57>>

\* C6: after every tick whose rectangle read failed, no move was issued, the
\* overlay is where it was before the tick, and it is visible iff the tick
\* computed covered = FALSE.
C6_DecoupledFailure ==
    ( Ticked /\ ~RectRead ) =>
        /\ ~HasCmd("move")
        /\ pos = last.prePos
        /\ visible <=> ~last.covered

\* C6 witness: a tick whose rectangle read failed left the overlay at a position
\* commanded earlier, and still changed its visibility.
C6_Witness ==
    /\ Ticked /\ ~RectRead /\ pos # <<0, 0>> /\ pos = last.prePos
    /\ VisibilityCmdIssued

\* C7: the lifecycle scenario.  After its step 1 the overlay is hidden; after its
\* step 2 the overlay is visible and at (target.right + dx, target.top + dy);
\* after its step 3 the overlay is hidden and where step 2 put it.
C7_LifecycleScenario ==
    /\ scen.step = 1 => ~visible
    /\ scen.step = 2 => ( visible /\ pos = Anchor(scen.rect) /\ scen.pos = pos )
    /\ scen.step = 3 => ( ~visible /\ pos = scen.pos /\ pos = Anchor(scen.rect) )

\* C7 witness: the three steps have been played, the last tick being step 3.
C7_Witness ==
    scen.step = 3 /\ Ticked /\ last.wasVisible

\* C8 (as claimed): once the target window is destroyed, the overlay is hidden
\* after every tick, whichever window is in the foreground.
C8_StaleHandleHidden ==
    ( Ticked /\ ~alive ) => ~visible

\* C9: whichever queries fail in a tick, nothing is raised out of the tick, the
\* timer stays armed for the next tick, the visibility update has run (visible
\* iff not covered), the reposition has run if the rectangle could be read, and
\* the shell list has been cleaned.
C9_NoFailureEscapes ==
    Ticked =>
        /\ ~last.raised
        /\ pc = "exec" /\ timerActive
        /\ visible <=> ~last.covered
        /\ RectRead => ( HasCmd("move") /\ pos = Anchor(rect) )
        /\ \A i \in 1..Len(shells) : shells[i] \in shellVis

\* C9 witness: a tick in which every query failed, with a closed shell cleaned up.
C9_Witness ==
    Ticked /\ last.fail = Queries /\ nshells > Len(shells) /\ last.cmds # << >>

\* C10: when the lookup finds no window, main() reports it and exits with status
\* 1; no overlay is constructed, no timer started, and no tick ever runs.
C10_LookupFailureFatal ==
    /\ ( pc # "start" /\ find_window_by_title_exact(desktop, Steam) = 0 ) =>
          /\ pc = "exit"
          /\ exitStatus = 1
          /\ out = << "not found" >>
          /\ ~created
          /\ ~timerActive
          /\ ~last.ticked
          /\ ~visible
    /\ last.ticked => find_window_by_title_exact(desktop, Steam) # 0

\* C10 witness: main() has exited on a desktop whose only window titled Steam is
\* not visible.
C10_Witness ==
    pc = "exit" /\ desktop # << >> /\ exitStatus = 1

\* Position in the command sequence of the tick that has just run of its first
\* command named op; 0 if it issued none.
CmdIndex(op) ==
    LET I == { i \in 1..Len(last.cmds) : last.cmds[i].op = op }
    IN  IF I = {} THEN 0 ELSE CHOOSE i \in I : \A j \in I : i <= j

\* C16: in every tick that issues both a show/hide command and a move command,
\* the show/hide command is issued before the move command.
C16_VisibilityBeforeMove ==
    ( Ticked /\ VisibilityCmdIssued /\ HasCmd("move") ) =>
        /\ Len(last.cmds) = 2
        /\ last.cmds[1].op \in {"show", "hide"}
        /\ last.cmds[2].op = "move"
        /\ CmdIndex("move") > CmdIndex(last.cmds[1].op)

\* C16 witness: a tick issued show and then move.
C16_Witness ==
    Ticked /\ Len(last.cmds) = 2 /\ last.cmds[1].op = "show" /\ last.cmds[2].op = "move"

\* C20: every tick whose target handle is present and whose rectangle read
\* succeeds issues the move to (right + dx, top + dy), whether the overlay was
\* visible or hidden before it and whether it computed covered or not.
C20_RepositionIndependentOfVisibility ==
    \A wasVis \in BOOLEAN, cov \in BOOLEAN :
        ( /\ Ticked /\ hwnd_parent # 0 /\ RectRead
          /\ last.wasVisible = wasVis /\ last.covered = cov )
        => ( /\ CmdIndex("move") # 0
             /\ last.cmds[CmdIndex("move")] = Cmd("move", Anchor(rect)[1], Anchor(rect)[2])
             /\ pos = Anchor(rect) )

\* C20 witness: a tick found the overlay hidden, computed covered, left it
\* hidden, and moved it after the target to a new position.
C20_Witness ==
    /\ Ticked /\ RectRead /\ ~last.wasVisible /\ last.covered /\ ~visible
    /\ pos # last.prePos /\ pos = Anchor(rect) /\ last.prePos # <<0, 0>>

\* ------------------------------------------------------------ properties of the locator
Located == loc.done
\* The first 511 characters of a title: what fits the 512-unit buffer.
Buffered(t) == IF Len(t) > 511 THEN SubSeq(t, 1, 511) ELSE t
\* The windows of the desktop searched, by position in the enumeration.
LocIdx == 1..Len(loc.ws)
Returned == loc.ws[loc.val]

\* C11 (as claimed): the locator returns only a window whose whitespace-trimmed
\* title equals the wanted title.
C11_ExactMatchOnly ==
    ( Located /\ loc.val # NULL ) => strip(Returned.title) = loc.title

\* C11 (amended): the locator returns only a window whose title, cut to the 511
\* characters the buffer holds and then trimmed, equals the wanted title; a
\* window titled "Steamx" is never returned for "Steam", and a title of at most
\* 511 characters is returned only if its trimmed title equals the wanted one.
C11_ExactMatchOnlyAmended ==
    ( Located /\ loc.val # NULL ) =>
        /\ loc.val \in LocIdx
        /\ strip(Buffered(Returned.title)) = loc.title
        /\ Len(Returned.title) <= 511 => strip(Returned.title) = loc.title
        /\ loc.title = Steam => Returned.title # Steam \o <<"x">>

\* C11 witness: "Steam" was looked for on a desktop whose first window is a
\* visible "Steamx" and whose second is " Steam ", and the second was returned.
C11_Witness ==
    /\ Located /\ loc.title = Steam /\ Len(loc.ws) >= 2
    /\ loc.ws[1] = Win(1, TRUE, Steam \o <<"x">>)
    /\ loc.ws[2].title = <<" ">> \o Steam \o <<" ">>
    /\ loc.val = 2

\* C12: the locator never returns a window that is not visible, and when every
\* window whose title matches is not visible it returns not-found.
C12_VisibilityFilter ==
    Located =>
        /\ loc.val # NULL => Returned.visible
        /\ ( \A i \in LocIdx : strip(Buffered(loc.ws[i].title)) = loc.title
                                  => ~loc.ws[i].visible )
           => loc.val = NULL

\* C12 witness: the only window is titled exactly as wanted and not visible, the
\* enumeration did not fail, and the locator returned not-found.
C12_Witness ==
    /\ Located /\ loc.failAt = NoFail /\ loc.ws = << Win(1, FALSE, Steam) >>
    /\ loc.title = Steam /\ loc.val = NULL /\ loc.examined = <<1>>

\* C13 (as claimed): when the enumeration completes and no visible window's
\* trimmed title equals the wanted title, the locator returns None and does not
\* raise.
C13_NotFoundContract ==
    ( /\ Located /\ loc.failAt = NoFail
      /\ \A i \in LocIdx : ~( loc.ws[i].visible /\ strip(loc.ws[i].title) = loc.title ) )
    => ( loc.val = NULL /\ ~loc.raised )

\* C13 (amended): when the enumeration completes and no visible window's title,
\* cut to the 511 characters the buffer holds and then trimmed, equals the wanted
\* title, the locator returns None; and the locator never raises.
C13_NotFoundContractAmended ==
    Located =>
        /\ ~loc.raised
        /\ ( /\ loc.failAt = NoFail
             /\ \A i \in LocIdx :
                   ~( loc.ws[i].visible /\ strip(Buffered(loc.ws[i].title)) = loc.title ) )
           => loc.val = NULL

\* C13 witness: a desktop of visible windows none of which matches, enumerated to
\* the end, gave None.
C13_Witness ==
    /\ Located /\ loc.failAt = NoFail /\ Len(loc.ws) >= 2
    /\ \A i \in LocIdx : loc.ws[i].visible
    /\ Len(loc.examined) = Len(loc.ws)
    /\ loc.val = NULL /\ ~loc.raised

\* The first window, in enumeration order, that is visible and whose title as
\* read matches; 0 if there is none.
FirstMatch ==
    LET M == { i \in LocIdx : loc.ws[i].visible
                               /\ strip(Buffered(loc.ws[i].title)) = loc.title }
    IN  IF M = {} THEN 0 ELSE CHOOSE i \in M : \A j \in M : i <= j

\* C14: when visible windows match, the locator returns the first of them in
\* enumeration order, the callback is called for no window after it, and the
\* result list never holds more than one handle.
C14_FirstMatchShortCircuit ==
    Located =>
        /\ Len(loc.result) <= 1
        /\ ( FirstMatch # 0 /\ (loc.failAt = NoFail \/ loc.failAt >= FirstMatch) ) =>
              /\ loc.val = loc.ws[FirstMatch].hwnd
              /\ loc.examined = [ i \in 1..FirstMatch |-> loc.ws[i].hwnd ]
        /\ loc.val # NULL => loc.examined[Len(loc.examined)] = loc.val

\* C14 witness: two visible matching windows; the first was returned and the
\* second never examined.
C14_Witness ==
    /\ Located /\ Len(loc.ws) = 2 /\ loc.title = Steam
    /\ loc.ws[1].visible /\ loc.ws[2].visible
    /\ loc.ws[1].title = Steam /\ loc.ws[2].title = Steam
    /\ loc.val = 1 /\ loc.examined = <<1>> /\ loc.result = <<1>>

\* C15 (as claimed): when the EnumWindows call fails, the locator returns
\* NotFound, does not raise, and reports an error that tells the failure from
\* an ordinary not-found.
C15_EnumerationFailure ==
    ( Located /\ loc.failAt # NoFail /\ ~loc.enumOk /\ loc.result = << >> ) =>
        ( loc.val = NULL /\ ~loc.raised /\ loc.error # "none" )

\* ------------------------------------------------------------ properties of the session
\* The overlay surface was constructed and exists no longer.
SurfaceDestroyed == hwnd_parent # 0 /\ ~created

CoveredNow ==
    is_window_covered_or_not_foreground(hwnd_parent, winId(frozen.fail),
        IsIconic(alive, iconic, frozen.fail), GetForegroundWindow(fg, frozen.fail))
RectNow == get_window_rect(alive, rect, frozen.fail)
ConsistentNow ==
    /\ visible <=> ~CoveredNow
    /\ (hwnd_parent # 0 /\ RectNow # << >>) => pos = Anchor(rect)

\* C18: once the external state has stopped changing, the state after the next
\* tick, and after every later tick, has the overlay visible iff not covered
\* and, when the rectangle is readable, positioned at (right + dx, top + dy);
\* with the timer scheduled fairly that state is always reached.
C18_EventualConsistency ==
    /\ []( (frozen.on /\ Ticked) => ConsistentNow )
    /\ ( frozen.on ~> (frozen.on /\ Ticked /\ ConsistentNow) )

\* C18 witness: the first tick after the external state stopped changing had
\* to show the overlay and to move it, and left it consistent.
C18_Witness ==
    /\ frozen.on /\ Ticked /\ ConsistentNow
    /\ Len(last.cmds) = 2 /\ last.cmds[1].op = "show" /\ last.prePos # pos

\* C19: the program calls the locator exactly once, at startup, and during the
\* session no step reassigns the target handle or the offset or calls the
\* locator again, also after the target was closed and opened again.
C19_FixedSessionConfiguration ==
    /\ []( pc # "start" => lookups = 1 )
    /\ []( pc = "exec" => hwnd_parent = find_window_by_title_exact(desktop, Steam) )
    /\ [][ pc = "exec" => /\ hwnd_parent' = hwnd_parent
                          /\ rel_offset' = rel_offset
                          /\ lookups' = lookups ]_vars

\* C19 witness: the target was closed and opened again, the new window is in
\* the foreground, and a tick has run and still holds the old handle.
C19_Witness ==
    /\ pc = "exec" /\ ~alive /\ reopened /\ fg = Reopened /\ Ticked
    /\ hwnd_parent # Reopened /\ lookups = 1 /\ ~visible

\* ------------------------------------------------------------ properties of the covered test
\* C21: a tick in which the minimized check raised, or the foreground-window
\* read raised, computed covered = TRUE, and hid the overlay if it was visible.
C21_ConservativeOnFailure ==
    ( /\ Ticked
      /\ \/ last.iconic = RAISE
         \/ last.fg = RAISE )
    => /\ last.covered
       /\ ~visible
       /\ last.wasVisible => (last.cmds # << >> /\ last.cmds[1] = Cmd("hide", 0, 0))

\* C21 witness: the target was in the foreground and not minimized, the
\* foreground read raised, and the tick hid the visible overlay.
C21_Witness ==
    /\ Ticked /\ alive /\ ~iconic /\ fg = hwnd_parent
    /\ last.iconic = 0 /\ last.fg = RAISE
    /\ last.wasVisible /\ ~visible /\ HasCmd("hide")

\* The tick that has just run made query q while it computed covered.
Asked(q) == \E i \in 1..Len(last.asked) : last.asked[i] = q

\* C22: a tick that finds the target minimized computes covered = TRUE whatever
\* the foreground window is, and does not read the foreground window; a tick
\* that reads it has made the minimized check first.
C22_MinimizedPrecedence ==
    Ticked =>
        /\ ( hwnd_parent # 0 /\ last.iconic = 1 ) =>
               ( last.covered /\ ~visible /\ ~Asked("GetForegroundWindow") )
        /\ Asked("GetForegroundWindow") =>
               ( last.asked[1] = "IsIconic" /\ last.iconic = 0 )

\* C22 witness: the target is minimized and the overlay is the foreground
\* window, and the tick computed covered.
C22_Witness ==
    /\ Ticked /\ alive /\ iconic /\ fg = Overlay /\ last.hwnd_overlay = Overlay
    /\ last.iconic = 1 /\ last.covered /\ last.asked = << "IsIconic" >>

\* C23: every tick reads the overlay's handle anew (0 when the read raises);
\* in a tick where it is 0 the overlay exemption does not apply: covered is
\* FALSE only if the foreground window is the target, and it is TRUE when
\* there is no foreground window or the foreground window is the overlay.
C23_LazyOverlayHandle ==
    Ticked =>
        /\ last.hwnd_overlay = (IF "winId" \in last.fail THEN 0 ELSE Overlay)
        /\ last.hwnd_overlay = 0 =>
              /\ ~last.covered => ( hwnd_parent # 0 /\ last.fg = hwnd_parent )
              /\ last.fg \in {NULL, Overlay} => last.covered

\* C23 witness: the overlay's handle could not be read, there is no foreground
\* window, the target is alive and not minimized, and the tick computed covered.
C23_Witness ==
    /\ Ticked /\ last.hwnd_overlay = 0 /\ alive /\ last.iconic = 0
    /\ fg = NULL /\ last.fg = NULL /\ last.covered /\ ~visible

\* The desktop searched, with every title cut to what the buffer holds.
CutDesktop == [ i \in LocIdx |-> [ loc.ws[i] EXCEPT !.title = Buffered(loc.ws[i].title) ] ]

\* C24: the locator's answer depends only on the buffer-length prefix of each
\* title: it is the answer for the desktop with every title cut to that prefix,
\* and a visible window it examined is the one returned exactly if its title,
\* cut first and trimmed second, equals the wanted title.
C24_BoundedTitleRead ==
    Located =>
        /\ loc.val = locate(CutDesktop, loc.title, loc.failAt).val
        /\ \A i \in 1..Len(loc.examined) :
              loc.ws[i].visible =>
                 ( (loc.val = loc.ws[i].hwnd) <=> (strip(Buffered(loc.ws[i].title)) = loc.title) )

\* C24 witness: a visible window whose 512-character title is "Steam", blanks
\* and a final "x" was returned for "Steam".
C24_Witness ==
    /\ Located /\ loc.title = Steam /\ loc.val # NULL
    /\ Returned.title = LongTitle /\ Len(Returned.title) = BufLen
    /\ strip(Returned.title) # Steam

\* ------------------------------------------------------------ properties of tracking
\* The result of steps 1 and 2 of the tick that has just run, had the target
\* window had title t and visibility flag v, everything else being the same.
StepsWith(t, v) ==
    LET tv == target_view(alive, iconic, rect, t, v)
    IN  tick_steps(hwnd_parent, rel_offset, last.wasVisible, last.hwnd_overlay,
                   IsIconic(tv.alive, tv.iconic, last.fail), last.fg,
                   get_window_rect(tv.alive, tv.rect, last.fail))

\* C25: the covered value and the commands of every tick are those computed
\* from the handle, the minimized flag, the rectangle, the foreground window
\* and the overlay handle alone: they are the same for every title and every
\* visibility flag the target window may have taken since the lookup.
C25_TrackingByHandleOnly ==
    Ticked =>
        \A t \in TargetTitles, v \in BOOLEAN :
            /\ StepsWith(t, v).covered = last.covered
            /\ StepsWith(t, v).cmds = last.cmds

\* C25 witness: the target has been retitled and hidden since the lookup, and
\* a tick showed the overlay and moved it to the target's anchor.
C25_Witness ==
    /\ Ticked /\ alive /\ target.title # Steam /\ ~target.visible
    /\ ~last.covered /\ visible /\ HasCmd("show") /\ HasCmd("move") /\ pos = Anchor(rect)

\* ------------------------------------------------------------ properties of the shells
\* The foreground window is a shell opened by a click on the overlay.
ShellInForeground == \E i \in 1..nshells : fg = ShellHwnd(i)

\* C26: a tick that runs while a shell is the foreground window computes
\* covered = TRUE and leaves the overlay hidden (hiding it if it was visible);
\* and once a shell has been opened, every tick that finds the foreground
\* window to be neither the target nor the overlay leaves the overlay hidden.
C26_ShellsNotExempt ==
    Ticked =>
        /\ ShellInForeground =>
              /\ last.covered /\ ~visible
              /\ last.wasVisible => (last.cmds # << >> /\ last.cmds[1].op = "hide")
        /\ ( nshells > 0 /\ fg \notin {hwnd_parent, Overlay} ) => ~visible

\* C26 witness: a shell opened by a click is visible and in the foreground, the
\* target is alive and not minimized, and the tick hid the visible overlay.
C26_Witness ==
    /\ Ticked /\ 1 \in shellVis /\ fg = ShellHwnd(1) /\ alive /\ ~iconic
    /\ last.fail = {} /\ last.wasVisible /\ ~visible /\ HasCmd("hide")

\* The visible shells of the list ss, in the order of ss.
VisibleShells(ss) == SelectSeq(ss, LAMBDA x : x \in shellVis)

\* C27: a left click appends exactly one new, visible shell to the list and a
\* click with another button appends none; every tick leaves in the list
\* exactly the shells of the list that are visible, in their order, whatever
\* its covered value and its rectangle read; so after a tick the list holds
\* exactly the visible shells, in the order they were opened.
C27_ShellBookkeeping ==
    /\ [][ \A b \in {"left", "right"} :
             mousePressEvent(b) =>
                IF b = "left"
                THEN /\ Len(shells') = Len(shells) + 1
                     /\ SubSeq(shells', 1, Len(shells)) = shells
                     /\ \A i \in 1..Len(shells) : shells[i] # shells'[Len(shells')]
                     /\ shells'[Len(shells')] \in shellVis'
                ELSE shells' = shells ]_vars
    /\ [][ Ticked' => shells' = VisibleShells(shells) ]_vars
    /\ []( Ticked =>
             /\ \A i \in 1..Len(shells) : shells[i] \in shellVis
             /\ \A v \in shellVis : \E i \in 1..Len(shells) : shells[i] = v
             /\ \A i, j \in 1..Len(shells) : i < j => shells[i] < shells[j] )

\* C27 witness: two shells were opened and the first one closed; a tick whose
\* rectangle read failed and which computed covered has left only the second.
C27_Witness ==
    /\ Ticked /\ nshells = 2 /\ shellVis = {2} /\ shells = << 2 >>
    /\ "GetWindowRect" \in last.fail /\ last.covered

\* ------------------------------------------------------------ properties of the calibration tool
\* C28: when the tool reports an offset, it is (window.left - target.right,
\* window.top - target.top) for the window's place at the double-click,
\* wherever it was dragged and however it was resized, and the tracker's tick
\* run with that offset for the same target rectangle issues exactly the move
\* to (window.left, window.top).
C28_CalibrationRoundTrip ==
    /\ ( cal.pc = "exec" /\ cal.clicked /\ cal.rel_info = "offset" ) =>
           cal.rel = << cal.win[1] - cal.steamRect[3], cal.win[2] - cal.steamRect[2] >>
    /\ ( cal.pc = "exec" /\ cal.tracked ) =>
           cal.track = << Cmd("move", cal.win[1], cal.win[2]) >>

\* C28 witness: the tool's window was shrunk with the Down key, then
\* double-clicked where it lay left of and below the target's top right
\* corner, and the tracker moved the overlay to where the tool's window was.
C28_Witness ==
    /\ cal.pc = "exec" /\ cal.tracked /\ cal.rel[1] < 0 /\ cal.rel[2] > 0
    /\ cal.scale_factor = FloatDiv(Float_1_0, Float_1_05)
    /\ cal.win[3] - cal.win[1] < cal.pixmap[1]
    /\ cal.track = << Cmd("move", cal.win[1], cal.win[2]) >>

\* C30: the tool does not exit when the lookup fails (it exits only when its
\* window is closed) and runs with an absent target; a double-click with an
\* absent target prints "target not found" and reads no rectangle; a
\* double-click with a present target whose rectangle, or the tool's own,
\* cannot be read raises OSError out of the handler, prints nothing and
\* reports no offset.
C30_CalibrationErrors ==
    /\ ( cal.pc \in {"exec", "exit"} /\ find_window_by_title_exact(cal.ws, Steam) = NULL ) =>
           ( cal.hwnd_steam = NULL /\ cal.out[1] = "not found" )
    /\ ( cal.pc \in {"start", "exec"} => ~cal.exited )
    /\ ( cal.pc = "exit" => ( cal.exited /\ cal.closed /\ cal.status = 0 ) )
    /\ ( cal.pc = "exec" /\ cal.clicked /\ cal.hwnd_steam = NULL ) =>
           /\ cal.out = Append(cal.prev, "target not found")
           /\ cal.reads = << >> /\ ~cal.raised /\ cal.rel = << >>
    /\ ( cal.pc = "exec" /\ cal.clicked /\ cal.hwnd_steam # NULL
         /\ cal.fail # "none" ) =>
           /\ cal.raised /\ cal.out = cal.prev /\ cal.rel = << >>
           /\ cal.reads = IF cal.fail = "target" THEN << "target" >>
                          ELSE << "target", "own" >>

\* C30 witness: the target was found, its rectangle was read, the read of the
\* tool's own rectangle failed, and the double-click raised.
C30_Witness ==
    /\ cal.pc = "exec" /\ cal.clicked /\ cal.hwnd_steam # NULL
    /\ cal.fail = "own"
    /\ cal.raised /\ cal.reads = << "target", "own" >> /\ cal.out = << "found" >>

\* ------------------------------------------------------------ properties of the two trackers
\* C29: on every sequence of rectangle reads and for every offset, the
\* positioning step of _tick and update_position have issued the same sequence
\* of move commands: none for an absent handle, and one move to
\* (right + dx, top + dy) for each read that succeeded, in order.
C29_PositioningEquivalence ==
    /\ pt.tick = pt.update
    /\ pt.hwnd = NULL => pt.update = << >>
    /\ pt.hwnd # NULL =>
          pt.update = [ i \in 1..Len(pt.update) |->
                          LET r == SelectSeq(pt.reads, LAMBDA x : x # << >>)[i]
                          IN  Cmd("move", r[3] + pt.offset[1], r[2] + pt.offset[2]) ]
    /\ pt.hwnd # NULL => Len(pt.update) = Len(SelectSeq(pt.reads, LAMBDA x : x # << >>))

\* C29 witness: a present handle, a successful read, a failed read and a
\* successful read of another rectangle; both trackers issued the same two moves.
C29_Witness ==
    /\ pc = "track" /\ pt.hwnd # NULL /\ Len(pt.reads) = 3
    /\ pt.reads[1] # << >> /\ pt.reads[2] = << >> /\ pt.reads[3] # << >>
    /\ pt.reads[1] # pt.reads[3]
    /\ Len(pt.update) = 2 /\ pt.tick = pt.update /\ pt.update[1] # pt.update[2]

====
